---- MODULE Spec2Model ----
(***************************************************************************)
(* Model of bridge.py: the WebSocket <-> serial bridge for the ITR 90      *)
(* vacuum gauge.  The model covers the frame decoder                       *)
(* (parse_itr90_frames), the two throttled sinks (tui_update_reading,      *)
(* write_influx_pressure), the two direction tasks of a session            *)
(* (serial_to_ws, ws_to_serial), the connection handler and the server     *)
(* that starts one handler per client connection.                          *)
(*                                                                         *)
(* Bytes are naturals 0..255, byte strings are sequences.  Time is the     *)
(* monotonic clock counted in ticks of 1/TicksPerSecond seconds.           *)
(***************************************************************************)
EXTENDS Integers, Sequences, FiniteSets, TLC

VARIABLES
    devStream,          \* bytes the device emits, in order
    devPos,             \* number of bytes of devStream already read
    serOpen,            \* the serial handle opened by main() is open
    serOpens,           \* number of times the port has been opened
    serWritten,         \* byte strings written to the device, in order
    sess,               \* per client connection: "none", "active", "ended"
    wsOpen,             \* per connection: the client side is still open
    pcS2W,              \* position of the connection's serial_to_ws task
    pcW2S,              \* position of the connection's ws_to_serial task
    data,               \* serial_to_ws: the chunk read and not yet sent
    parse_buf,          \* serial_to_ws: the decode buffer
    pending,            \* serial_to_ws: readings of this pass not yet dispatched
    devRead,            \* per connection: the bytes read from the device
    wsSent,             \* per connection: the bytes handed to ws.send
    clientRecv,         \* per connection: the bytes delivered to the client
    wsRecv,             \* messages received from the clients: [s, m, written]
    influx,             \* _influx is set (logger enabled)
    last_influx_write,  \* _last_influx_write
    tui_active,         \* _tui_active
    tui_pressure,       \* _tui_pressure
    tui_last_draw,      \* _tui_last_draw
    tui_client,         \* _tui_client
    tui_row5,           \* pressure shown on row 5 of the panel
    now,                \* time.monotonic()
    offered,            \* readings dispatched to the sinks: [s, t, p]
    influxLog,          \* writes accepted by the logger: [t, p]
    tuiLog              \* partial redraws accepted by the display: [t, p]

vars == <<devStream, devPos, serOpen, serOpens, serWritten, sess, wsOpen,
          pcS2W, pcW2S, data, parse_buf, pending, devRead, wsSent,
          clientRecv, wsRecv, influx, last_influx_write, tui_active, tui_pressure,
          tui_last_draw, tui_client, tui_row5, now, offered, influxLog,
          tuiLog>>

devVars  == <<devStream, devPos>>
serVars  == <<serOpen, serOpens>>
sinkVars == <<last_influx_write, tui_pressure, tui_last_draw, tui_row5,
              offered, influxLog, tuiLog>>
cfgVars  == <<influx, tui_active>>
relayVars == <<data, parse_buf, pending, devRead, wsSent, clientRecv>>

----------------------------------------------------------------------------
(* Bounds of the model *)

MaxSessions == 2        \* client connections over the life of the process
MaxWrites == 2          \* client messages received
MaxClock == 24          \* last tick of the monotonic clock
MaxStartClock == 12     \* latest clock value at process start
MaxSegs == 3            \* segments of a decoder input stream
MaxReadings == 3        \* frames the device emits in ThrottleSpec

(* Program constants *)

FRAME_LENGTH == 9
READ_SIZE == 256         \* ser.read(256)
TUI_UPDATE_HZ == 5

TicksPerSecond == 2 * TUI_UPDATE_HZ   \* resolution: 1 tick = 0.1 s

Sessions == 1..MaxSessions
\* Python's None and a value that is not None
None == <<>>
Some(x) == <<x>>

----------------------------------------------------------------------------
(* Helpers on byte strings *)

Min(a, b) == IF a < b THEN a ELSE b

RECURSIVE SumSeq(_)
SumSeq(s) == IF s = <<>> THEN 0 ELSE Head(s) + SumSeq(Tail(s))

RECURSIVE Flatten(_)
Flatten(ss) == IF ss = <<>> THEN <<>> ELSE Head(ss) \o Flatten(Tail(ss))

LastByte(buf) == <<buf[Len(buf)]>>

----------------------------------------------------------------------------
(* PROTOCOL: parse_itr90_frames *)

\* pressure_mbar with one slip: the two bytes of the field are swapped
pressure_mbar_swapped(high, low) == (low * 256 + high) - 50000

\* 10 ** (raw / 4000 - 12.5) = 10 ** ((raw - 50000) / 4000): the pressure is
\* represented by the numerator of its decimal exponent over 4000.
pressure_mbar(high, low) == (high * 256 + low) - 50000

\* the for-loop: first i with buf[i] = 7 and buf[i+1] = 5, 0 when none
\* (the code's idx = -1); positions are 1-based here.
FindMarker(buf) ==
    LET hits == {i \in 1..(Len(buf) - 1) : buf[i] = 7 /\ buf[i + 1] = 5}
    IN  IF hits = {} THEN 0
        ELSE CHOOSE i \in hits : \A j \in hits : i <= j

frame_checksum(frame) == SumSeq(SubSeq(frame, 2, 8)) % 256

RECURSIVE parse_loop(_, _)
parse_loop(readings, buf) ==
    LET idx == FindMarker(buf) IN
    IF idx = 0
    THEN [readings |-> readings,
          buf |-> IF Len(buf) > 1 THEN LastByte(buf) ELSE buf]
    ELSE
      LET b == SubSeq(buf, idx, Len(buf)) IN
      IF Len(b) < FRAME_LENGTH
      THEN [readings |-> readings, buf |-> b]
      ELSE
        LET frame == SubSeq(b, 1, FRAME_LENGTH)
            rest  == SubSeq(b, FRAME_LENGTH + 1, Len(b))
        IN  IF frame_checksum(frame) # frame[9]
            THEN parse_loop(readings, rest)
            ELSE parse_loop(Append(readings, pressure_mbar(frame[5], frame[6])),
                            rest)

\* One iteration of the while-loop on its own: whether it leaves the loop
\* (break), the buffer it leaves, the readings it appends.
\* scan_step with one slip: the candidate is validated before it is sliced
\* off, and a failed checksum continues without consuming it
scan_step_peek(buf) ==
    LET idx == FindMarker(buf) IN
    IF idx = 0
    THEN [exit |-> TRUE, readings |-> <<>>,
          buf |-> IF Len(buf) > 1 THEN LastByte(buf) ELSE buf]
    ELSE
      LET b == SubSeq(buf, idx, Len(buf)) IN
      IF Len(b) < FRAME_LENGTH
      THEN [exit |-> TRUE, readings |-> <<>>, buf |-> b]
      ELSE
        LET frame == SubSeq(b, 1, FRAME_LENGTH)
            rest  == SubSeq(b, FRAME_LENGTH + 1, Len(b))
        IN  IF frame_checksum(frame) # frame[9]
            THEN [exit |-> FALSE, readings |-> <<>>, buf |-> b]
            ELSE [exit |-> FALSE, buf |-> rest,
                  readings |-> <<pressure_mbar(frame[5], frame[6])>>]

scan_step(buf) ==
    LET idx == FindMarker(buf) IN
    IF idx = 0
    THEN [exit |-> TRUE, readings |-> <<>>,
          buf |-> IF Len(buf) > 1 THEN LastByte(buf) ELSE buf]
    ELSE
      LET b == SubSeq(buf, idx, Len(buf)) IN
      IF Len(b) < FRAME_LENGTH
      THEN [exit |-> TRUE, readings |-> <<>>, buf |-> b]
      ELSE
        LET frame == SubSeq(b, 1, FRAME_LENGTH)
            rest  == SubSeq(b, FRAME_LENGTH + 1, Len(b))
        IN  IF frame_checksum(frame) # frame[9]
            THEN [exit |-> FALSE, readings |-> <<>>, buf |-> rest]
            ELSE [exit |-> FALSE, buf |-> rest,
                  readings |-> <<pressure_mbar(frame[5], frame[6])>>]

\* the loop run for at most fuel iterations: the buffer lengths at the start
\* of each iteration, whether the loop was left, and what it returns
RECURSIVE scan_run(_, _, _, _)
scan_run(readings, buf, lens, fuel) ==
    IF fuel = 0
    THEN [exited |-> FALSE, readings |-> readings, buf |-> buf, lens |-> lens]
    ELSE LET st == scan_step(buf) IN
         IF st.exit
         THEN [exited |-> TRUE, readings |-> readings, buf |-> st.buf,
               lens |-> Append(lens, Len(buf))]
         ELSE scan_run(readings \o st.readings, st.buf,
                       Append(lens, Len(buf)), fuel - 1)

\* Variants of the scan loop with one slip each:
\*   "drop":  with no marker the buffer is emptied, the last byte is not kept
\*   "keep":  with no marker the buffer is kept whole
\*   "break": a failed checksum leaves the loop
\*   "once":  the loop is left after the first reading
\*   "eat":   a partial frame is returned without its two marker bytes
\*   "trust": the checksum is not tested
RECURSIVE parse_loop_variant(_, _, _)
parse_loop_variant(readings, buf, v) ==
    LET idx == FindMarker(buf) IN
    IF idx = 0
    THEN [readings |-> readings,
          buf |-> IF v = "keep" THEN buf
                  ELSE IF Len(buf) > 1
                       THEN (IF v = "drop" THEN <<>> ELSE LastByte(buf))
                       ELSE buf]
    ELSE
      LET b == SubSeq(buf, idx, Len(buf)) IN
      IF Len(b) < FRAME_LENGTH
      THEN [readings |-> readings,
            buf |-> IF v = "eat" THEN SubSeq(b, 3, Len(b)) ELSE b]
      ELSE
        LET frame == SubSeq(b, 1, FRAME_LENGTH)
            rest  == SubSeq(b, FRAME_LENGTH + 1, Len(b))
        IN  IF frame_checksum(frame) # frame[9] /\ v # "trust"
            THEN IF v = "break"
                 THEN [readings |-> readings, buf |-> rest]
                 ELSE parse_loop_variant(readings, rest, v)
            ELSE IF v = "once"
                 THEN [readings |->
                           Append(readings, pressure_mbar(frame[5], frame[6])),
                       buf |-> rest]
                 ELSE parse_loop_variant(
                          Append(readings, pressure_mbar(frame[5], frame[6])),
                          rest, v)

parse_itr90_frames_drop(buf) == parse_loop_variant(<<>>, buf, "drop")
parse_itr90_frames_keep(buf) == parse_loop_variant(<<>>, buf, "keep")
parse_itr90_frames_break(buf) == parse_loop_variant(<<>>, buf, "break")
parse_itr90_frames_once(buf) == parse_loop_variant(<<>>, buf, "once")
parse_itr90_frames_eat(buf) == parse_loop_variant(<<>>, buf, "eat")
parse_itr90_frames_trust(buf) == parse_loop_variant(<<>>, buf, "trust")

parse_itr90_frames(buf) == parse_loop(<<>>, buf)

----------------------------------------------------------------------------
(* SINKS: tui_update_reading, tui_draw, write_influx_pressure *)

TuiInterval == TicksPerSecond \div TUI_UPDATE_HZ     \* 1.0 / TUI_UPDATE_HZ

tui_update_reading(p) ==
    /\ tui_pressure' = Some(p)
    /\ IF ~tui_active
       THEN UNCHANGED <<tui_last_draw, tui_row5, tuiLog>>
       ELSE IF now - tui_last_draw < TuiInterval
            THEN UNCHANGED <<tui_last_draw, tui_row5, tuiLog>>
            ELSE /\ tui_last_draw' = now
                 /\ tui_row5' = Some(p)
                 /\ tuiLog' = Append(tuiLog, [t |-> now, p |-> p])

\* write_influx_pressure with one slip: the throttle window is compared
\* against the display's interval
write_influx_pressure_short(p, ok) ==
    IF ~influx
    THEN UNCHANGED <<last_influx_write, influxLog>>
    ELSE IF now - last_influx_write < TuiInterval
         THEN UNCHANGED <<last_influx_write, influxLog>>
         ELSE /\ last_influx_write' = now
              /\ influxLog' = Append(influxLog, [t |-> now, p |-> p, ok |-> ok])

\* write_influx_pressure with one slip: the window is measured from the
\* display's timestamp, one throttle state shared by the two sinks
write_influx_pressure_shared(p, ok) ==
    IF ~influx
    THEN UNCHANGED <<last_influx_write, influxLog>>
    ELSE IF now - tui_last_draw < TicksPerSecond
         THEN UNCHANGED <<last_influx_write, influxLog>>
         ELSE /\ last_influx_write' = now
              /\ influxLog' = Append(influxLog, [t |-> now, p |-> p, ok |-> ok])

write_influx_pressure(p, ok) ==
    IF ~influx
    THEN UNCHANGED <<last_influx_write, influxLog>>
    ELSE IF now - last_influx_write < TicksPerSecond
         THEN UNCHANGED <<last_influx_write, influxLog>>
         ELSE /\ last_influx_write' = now
              /\ influxLog' = Append(influxLog, [t |-> now, p |-> p, ok |-> ok])

\* no serial_to_ws task is inside its synchronous dispatch loop, except s
Quiet(s) == \A t \in Sessions \ {s} : pcS2W[t] # "dispatch"

\* SIGWINCH handler: full redraw, row 5 shows _tui_pressure
tui_draw ==
    /\ tui_active
    /\ Quiet(0)
    /\ tui_row5' = tui_pressure
    /\ UNCHANGED <<devVars, serVars, serWritten, sess, wsOpen, pcS2W, pcW2S,
                   relayVars, wsRecv, cfgVars, last_influx_write, tui_pressure,
                   tui_last_draw, tui_client, now, offered, influxLog, tuiLog>>

\* the monotonic clock advances
Tick ==
    /\ now < MaxClock
    /\ now' = now + 1
    /\ UNCHANGED <<devVars, serVars, serWritten, sess, wsOpen, pcS2W, pcW2S,
                   relayVars, wsRecv, cfgVars, sinkVars, tui_client>>

----------------------------------------------------------------------------
(* TRANSPORT HANDLERS: serial_to_ws *)

\* ser.read returned k >= 1 bytes
serial_to_ws_read(s, k) ==
    /\ sess[s] = "active" /\ pcS2W[s] = "read" /\ Quiet(s)
    /\ k \in 1..Min(READ_SIZE, Len(devStream) - devPos)
    /\ LET chunk == SubSeq(devStream, devPos + 1, devPos + k) IN
         /\ data' = [data EXCEPT ![s] = chunk]
         /\ devRead' = [devRead EXCEPT ![s] = @ \o chunk]
    /\ devPos' = devPos + k
    /\ pcS2W' = [pcS2W EXCEPT ![s] = "send"]
    /\ UNCHANGED <<devStream, serVars, serWritten, sess, wsOpen, pcW2S,
                   parse_buf, pending, wsSent, clientRecv, wsRecv, cfgVars,
                   sinkVars, tui_client, now>>

\* ser.read timed out with no bytes: await asyncio.sleep(0.01), read again
serial_to_ws_idle(s) ==
    /\ sess[s] = "active" /\ pcS2W[s] = "read" /\ Quiet(s)
    /\ data' = [data EXCEPT ![s] = <<>>]
    /\ UNCHANGED <<devVars, serVars, serWritten, sess, wsOpen, pcS2W, pcW2S,
                   parse_buf, pending, devRead, wsSent, clientRecv, wsRecv,
                   cfgVars, sinkVars, tui_client, now>>

\* ser.read raised serial.SerialException: return
serial_to_ws_read_error(s) ==
    /\ sess[s] = "active" /\ pcS2W[s] = "read" /\ Quiet(s)
    /\ pcS2W' = [pcS2W EXCEPT ![s] = "done"]
    /\ UNCHANGED <<devVars, serVars, serWritten, sess, wsOpen, pcW2S,
                   relayVars, wsRecv, cfgVars, sinkVars, tui_client, now>>

\* serial_to_ws_send with one slip: the decode buffer is what is forwarded
serial_to_ws_send_buf(s) ==
    /\ sess[s] = "active" /\ pcS2W[s] = "send" /\ Quiet(s)
    /\ wsOpen[s]
    /\ wsSent' = [wsSent EXCEPT ![s] = @ \o parse_buf[s] \o data[s]]
    /\ clientRecv' = [clientRecv EXCEPT ![s] = @ \o parse_buf[s] \o data[s]]
    /\ LET r == parse_itr90_frames(parse_buf[s] \o data[s]) IN
         /\ parse_buf' = [parse_buf EXCEPT ![s] = r.buf]
         /\ pending' = [pending EXCEPT ![s] = r.readings]
         /\ pcS2W' = [pcS2W EXCEPT ![s] =
                        IF r.readings = <<>> THEN "read" ELSE "dispatch"]
    /\ data' = [data EXCEPT ![s] = <<>>]
    /\ UNCHANGED <<devVars, serVars, serWritten, sess, wsOpen, pcW2S,
                   devRead, wsRecv, cfgVars, sinkVars, tui_client, now>>

\* await ws.send(data) succeeded; parse_buf += data; one decode pass.
\* data is not used again before the next ser.read assigns it.
serial_to_ws_send(s) ==
    /\ sess[s] = "active" /\ pcS2W[s] = "send" /\ Quiet(s)
    /\ wsOpen[s]
    /\ wsSent' = [wsSent EXCEPT ![s] = @ \o data[s]]
    /\ clientRecv' = [clientRecv EXCEPT ![s] = @ \o data[s]]
    /\ LET r == parse_itr90_frames(parse_buf[s] \o data[s]) IN
         /\ parse_buf' = [parse_buf EXCEPT ![s] = r.buf]
         /\ pending' = [pending EXCEPT ![s] = r.readings]
         /\ pcS2W' = [pcS2W EXCEPT ![s] =
                        IF r.readings = <<>> THEN "read" ELSE "dispatch"]
    /\ data' = [data EXCEPT ![s] = <<>>]
    /\ UNCHANGED <<devVars, serVars, serWritten, sess, wsOpen, pcW2S,
                   devRead, wsRecv, cfgVars, sinkVars, tui_client, now>>

\* serial_to_ws_send_closed with one slip: the chunk is decoded before it is
\* sent, so it is in the decoder when the send raises
serial_to_ws_send_closed_decoded(s) ==
    /\ sess[s] = "active" /\ pcS2W[s] = "send" /\ Quiet(s)
    /\ ~wsOpen[s]
    /\ wsSent' = [wsSent EXCEPT ![s] = @ \o data[s]]
    /\ LET r == parse_itr90_frames(parse_buf[s] \o data[s]) IN
         /\ parse_buf' = [parse_buf EXCEPT ![s] = r.buf]
         /\ pending' = [pending EXCEPT ![s] = r.readings]
    /\ pcS2W' = [pcS2W EXCEPT ![s] = "done"]
    /\ UNCHANGED <<devVars, serVars, serWritten, sess, wsOpen, pcW2S,
                   data, devRead, clientRecv, wsRecv,
                   cfgVars, sinkVars, tui_client, now>>

\* await ws.send(data) raised websockets.ConnectionClosed: return
serial_to_ws_send_closed(s) ==
    /\ sess[s] = "active" /\ pcS2W[s] = "send" /\ Quiet(s)
    /\ ~wsOpen[s]
    /\ wsSent' = [wsSent EXCEPT ![s] = @ \o data[s]]
    /\ pcS2W' = [pcS2W EXCEPT ![s] = "done"]
    /\ UNCHANGED <<devVars, serVars, serWritten, sess, wsOpen, pcW2S,
                   data, parse_buf, pending, devRead, clientRecv, wsRecv,
                   cfgVars, sinkVars, tui_client, now>>

\* serial_to_ws_dispatch with one slip: the exception of a failed logger
\* write is not caught in write_influx_pressure and ends the task
serial_to_ws_dispatch_raise(s, ok) ==
    /\ sess[s] = "active" /\ pcS2W[s] = "dispatch" /\ Quiet(s)
    /\ LET p == Head(pending[s]) IN
         /\ tui_update_reading(p)
         /\ write_influx_pressure(p, ok)
         /\ offered' = Append(offered, [s |-> s, t |-> now, p |-> p])
    /\ IF influx /\ now - last_influx_write >= TicksPerSecond /\ ~ok
       THEN /\ pcS2W' = [pcS2W EXCEPT ![s] = "done"]
            /\ UNCHANGED pending
       ELSE /\ pending' = [pending EXCEPT ![s] = Tail(@)]
            /\ pcS2W' = [pcS2W EXCEPT ![s] =
                           IF Tail(pending[s]) = <<>> THEN "read" ELSE "dispatch"]
    /\ UNCHANGED <<devVars, serVars, serWritten, sess, wsOpen, pcW2S,
                   data, parse_buf, devRead, wsSent, clientRecv, wsRecv,
                   cfgVars, tui_client, now>>

\* for pressure in readings: tui_update_reading; write_influx_pressure
serial_to_ws_dispatch(s, ok) ==
    /\ sess[s] = "active" /\ pcS2W[s] = "dispatch" /\ Quiet(s)
    /\ LET p == Head(pending[s]) IN
         /\ tui_update_reading(p)
         /\ write_influx_pressure(p, ok)
         /\ offered' = Append(offered, [s |-> s, t |-> now, p |-> p])
    /\ pending' = [pending EXCEPT ![s] = Tail(@)]
    /\ pcS2W' = [pcS2W EXCEPT ![s] =
                   IF Tail(pending[s]) = <<>> THEN "read" ELSE "dispatch"]
    /\ UNCHANGED <<devVars, serVars, serWritten, sess, wsOpen, pcW2S,
                   data, parse_buf, devRead, wsSent, clientRecv, wsRecv,
                   cfgVars, tui_client, now>>

----------------------------------------------------------------------------
(* TRANSPORT HANDLERS: ws_to_serial *)

TextMessage == [binary |-> FALSE, payload |-> <<>>]
ClientMessages ==
    {[binary |-> TRUE, payload |-> <<1>>],
     [binary |-> TRUE, payload |-> <<>>],
     TextMessage}

IsCommand(m) == m.binary /\ m.payload # <<>>

\* ws_to_serial_message with one slip: the isinstance/emptiness test is
\* missing, every message is written to the device
ws_to_serial_message_any(s, m) ==
    /\ sess[s] = "active" /\ pcW2S[s] = "recv" /\ Quiet(0)
    /\ wsOpen[s]
    /\ Len(wsRecv) < MaxWrites
    /\ wsRecv' = Append(wsRecv, [s |-> s, m |-> m, written |-> IsCommand(m)])
    /\ serWritten' = Append(serWritten, [s |-> s, bytes |-> m.payload])
    /\ UNCHANGED <<devVars, serVars, sess, wsOpen, pcS2W, pcW2S, relayVars,
                   cfgVars, sinkVars, tui_client, now>>

\* async for message in ws: a message arrives; a non-empty bytes message is
\* handed to ser.write, which returns; anything else is skipped
ws_to_serial_message(s, m) ==
    /\ sess[s] = "active" /\ pcW2S[s] = "recv" /\ Quiet(0)
    /\ wsOpen[s]
    /\ Len(wsRecv) < MaxWrites
    /\ wsRecv' = Append(wsRecv, [s |-> s, m |-> m, written |-> IsCommand(m)])
    /\ serWritten' = IF IsCommand(m)
                     THEN Append(serWritten, [s |-> s, bytes |-> m.payload])
                     ELSE serWritten
    /\ UNCHANGED <<devVars, serVars, sess, wsOpen, pcS2W, pcW2S, relayVars,
                   cfgVars, sinkVars, tui_client, now>>

\* ser.write raised serial.SerialException: return
ws_to_serial_write_error(s, m) ==
    /\ sess[s] = "active" /\ pcW2S[s] = "recv" /\ Quiet(0)
    /\ wsOpen[s]
    /\ Len(wsRecv) < MaxWrites
    /\ IsCommand(m)
    /\ wsRecv' = Append(wsRecv, [s |-> s, m |-> m, written |-> FALSE])
    /\ pcW2S' = [pcW2S EXCEPT ![s] = "done"]
    /\ UNCHANGED <<devVars, serVars, serWritten, sess, wsOpen, pcS2W,
                   relayVars, cfgVars, sinkVars, tui_client, now>>

\* the iteration ends, or websockets.ConnectionClosed is caught
ws_to_serial_closed(s) ==
    /\ sess[s] = "active" /\ pcW2S[s] = "recv" /\ Quiet(0)
    /\ ~wsOpen[s]
    /\ pcW2S' = [pcW2S EXCEPT ![s] = "done"]
    /\ UNCHANGED <<devVars, serVars, serWritten, sess, wsOpen, pcS2W,
                   relayVars, wsRecv, cfgVars, sinkVars, tui_client, now>>

----------------------------------------------------------------------------
(* handler, tui_update_client, the server *)

tui_update_client(peer, connected) ==
    tui_client' = IF connected THEN Some(peer) ELSE None

\* websockets.serve starts handler(ws, ser) for a new client connection;
\* connections are numbered in the order they are made
handler_start(s) ==
    /\ sess[s] = "none" /\ Quiet(0)
    /\ \A t \in Sessions : t < s => sess[t] # "none"
    /\ tui_update_client(s, TRUE)
    /\ sess' = [sess EXCEPT ![s] = "active"]
    /\ wsOpen' = [wsOpen EXCEPT ![s] = TRUE]
    /\ pcS2W' = [pcS2W EXCEPT ![s] = "read"]
    /\ pcW2S' = [pcW2S EXCEPT ![s] = "recv"]
    /\ parse_buf' = [parse_buf EXCEPT ![s] = <<>>]
    /\ UNCHANGED <<devVars, serVars, serWritten, data, pending, devRead,
                   wsSent, clientRecv, wsRecv, cfgVars, sinkVars, now>>

\* handler_finally with one slip: the serial handle is closed with the session
handler_finally_close(s) ==
    /\ sess[s] = "active" /\ Quiet(0)
    /\ pcS2W[s] = "done" /\ pcW2S[s] = "done"
    /\ tui_update_client(s, FALSE)
    /\ sess' = [sess EXCEPT ![s] = "ended"]
    /\ serOpen' = FALSE
    /\ UNCHANGED <<devVars, serOpens, serWritten, wsOpen, pcS2W, pcW2S,
                   relayVars, wsRecv, cfgVars, sinkVars, now>>

\* asyncio.gather returned (both tasks have returned); finally:
handler_finally(s) ==
    /\ sess[s] = "active" /\ Quiet(0)
    /\ pcS2W[s] = "done" /\ pcW2S[s] = "done"
    /\ tui_update_client(s, FALSE)
    /\ sess' = [sess EXCEPT ![s] = "ended"]
    /\ UNCHANGED <<devVars, serVars, serWritten, wsOpen, pcS2W, pcW2S,
                   relayVars, wsRecv, cfgVars, sinkVars, now>>

\* the client closes its connection
client_close(s) ==
    /\ sess[s] = "active"
    /\ wsOpen[s]
    /\ wsOpen' = [wsOpen EXCEPT ![s] = FALSE]
    /\ UNCHANGED <<devVars, serVars, serWritten, sess, pcS2W, pcW2S,
                   relayVars, wsRecv, cfgVars, sinkVars, tui_client, now>>

----------------------------------------------------------------------------
(* Device streams *)

MkFrame(x2, x3, high, low, x6, x7) ==
    LET body == <<5, x2, x3, high, low, x6, x7>>
    IN  <<7>> \o body \o <<SumSeq(body) % 256>>

\* a 9-byte candidate whose checksum byte is off by d
MkBadFrame(x2, x3, high, low, x6, x7, d) ==
    LET body == <<5, x2, x3, high, low, x6, x7>>
    IN  <<7>> \o body \o <<(SumSeq(body) + d) % 256>>

NoiseBytes == {0, 5, 7}
XBytes == {0, 7}

\* well-formed frame, 3 noise bytes, the same frame again
NoiseScenario(x, n) ==
    MkFrame(x, x, 128, 0, x, x) \o n \o MkFrame(x, x, 128, 0, x, x)
NoiseStreams ==
    {NoiseScenario(x, n) : x \in XBytes, n \in [1..3 -> NoiseBytes]}

Segments ==
    {MkFrame(0, 0, 128, 0, 0, 0),
     MkFrame(7, 5, 0, 1, 0, 0),
     MkBadFrame(0, 0, 128, 0, 0, 0, 1),
     MkBadFrame(0, 7, 5, 0, 0, 0, 3),
     <<7>>, <<5>>}
SegStreams ==
    {Flatten(f) : f \in UNION {[1..n -> Segments] : n \in 0..MaxSegs}}

DecodeStreams == NoiseStreams \cup SegStreams

\* frames with pairwise different pressure fields
ReadingFrame(i) == MkFrame(0, 0, 128, i, 0, 0)
RECURSIVE FrameTrain(_)
FrameTrain(n) == IF n = 0 THEN <<>> ELSE FrameTrain(n - 1) \o ReadingFrame(n)

\* PressureSpec: single frames over the corner values of the pressure field
\* and of the bytes around it
FieldBytes == {0, 128, 255}
PadBytes == {0, 255}
PressureStreams ==
    {MkFrame(x2, x3, high, low, x6, x7) :
        x2 \in PadBytes, x3 \in PadBytes, high \in FieldBytes,
        low \in FieldBytes, x6 \in PadBytes, x7 \in PadBytes}

\* Spec: one frame followed by the first marker byte of the next
BridgeStreams == {ReadingFrame(1) \o <<7>>}

\* RelaySpec, TeardownSpec: two frames, enough for two connections
RelayStreams == {FrameTrain(2)}

----------------------------------------------------------------------------
(* Initial states: main() has opened the port, set up the sinks and started *)
(* the server; no client has connected.                                     *)

InitWith(streams, starts, cfgs) ==
    /\ devStream \in streams
    /\ devPos = 0
    /\ serOpen = TRUE
    /\ serOpens = 1
    /\ serWritten = <<>>
    /\ sess = [s \in Sessions |-> "none"]
    /\ wsOpen = [s \in Sessions |-> FALSE]
    /\ pcS2W = [s \in Sessions |-> "none"]
    /\ pcW2S = [s \in Sessions |-> "none"]
    /\ data = [s \in Sessions |-> <<>>]
    /\ parse_buf = [s \in Sessions |-> <<>>]
    /\ pending = [s \in Sessions |-> <<>>]
    /\ devRead = [s \in Sessions |-> <<>>]
    /\ wsSent = [s \in Sessions |-> <<>>]
    /\ clientRecv = [s \in Sessions |-> <<>>]
    /\ wsRecv = <<>>
    /\ \E c \in cfgs : influx = c[1] /\ tui_active = c[2]
    /\ last_influx_write = 0
    /\ tui_pressure = None
    /\ tui_last_draw = 0
    /\ tui_client = None
    /\ tui_row5 = None
    /\ now \in starts
    /\ offered = <<>>
    /\ influxLog = <<>>
    /\ tuiLog = <<>>

\* chunk sizes the device delivers in Spec
BridgeChunks == {5, FRAME_LENGTH}

SerialToWs(s) ==
    \/ \E k \in BridgeChunks : serial_to_ws_read(s, k)
    \/ serial_to_ws_idle(s)
    \/ serial_to_ws_read_error(s)
    \/ serial_to_ws_send(s)
    \/ serial_to_ws_send_closed(s)
    \/ \E ok \in BOOLEAN : serial_to_ws_dispatch(s, ok)

WsToSerial(s) ==
    \/ \E m \in ClientMessages : ws_to_serial_message(s, m)
    \/ \E m \in ClientMessages : ws_to_serial_write_error(s, m)
    \/ ws_to_serial_closed(s)

(* The bridge: client connections and their two tasks.  The clock does not *)
(* advance here; ThrottleSpec has the clock.                               *)
Init == InitWith(BridgeStreams, {MaxClock - 2}, {<<TRUE, TRUE>>})

Next ==
    \/ \E s \in Sessions : handler_start(s)
    \/ \E s \in Sessions : SerialToWs(s)
    \/ \E s \in Sessions : WsToSerial(s)
    \/ \E s \in Sessions : client_close(s)
    \/ \E s \in Sessions : handler_finally(s)

Spec == Init /\ [][Next]_vars

(* The device-to-client direction on its own: the clients send nothing, so  *)
(* ws_to_serial only ever sees its connection close.                        *)
RelayInit == InitWith(RelayStreams, {MaxClock - 2}, {<<TRUE, TRUE>>})

RelayNext ==
    \/ \E s \in Sessions : handler_start(s)
    \/ \E s \in Sessions : SerialToWs(s)
    \/ \E s \in Sessions : ws_to_serial_closed(s)
    \/ \E s \in Sessions : client_close(s)
    \/ \E s \in Sessions : handler_finally(s)

RelaySpec == RelayInit /\ [][RelayNext]_vars

(* The client-to-device direction on its own: the device is silent, so     *)
(* serial_to_ws only polls it, or sees the read fail.                       *)
CommandInit == InitWith({<<>>}, {MaxClock - 2}, {<<TRUE, TRUE>>})

CommandNext ==
    \/ \E s \in Sessions : handler_start(s)
    \/ \E s \in Sessions : serial_to_ws_idle(s)
    \/ \E s \in Sessions : serial_to_ws_read_error(s)
    \/ \E s \in Sessions : WsToSerial(s)
    \/ \E s \in Sessions : client_close(s)
    \/ \E s \in Sessions : handler_finally(s)

CommandSpec == CommandInit /\ [][CommandNext]_vars

(* One connection decoding a drawn device stream *)
DecodeInit == InitWith(DecodeStreams, {MaxStartClock}, {<<TRUE, TRUE>>})

DecodeNext ==
    \/ handler_start(1)
    \/ \E k \in 1..(Len(devStream) - devPos) : serial_to_ws_read(1, k)
    \/ serial_to_ws_send(1)
    \/ serial_to_ws_dispatch(1, TRUE)

DecodeSpec == DecodeInit /\ [][DecodeNext]_vars

(* One connection decoding a single frame *)
PressureInit == InitWith(PressureStreams, {MaxStartClock}, {<<TRUE, TRUE>>})

PressureSpec == PressureInit /\ [][DecodeNext]_vars

(* Session teardown: clients that only listen; the event loop runs every    *)
(* ready task, and a task waiting in ser.read gets bytes while the device   *)
(* keeps emitting.                                                          *)
TeardownChunks == {FRAME_LENGTH}

\* the steps of serial_to_ws after its ser.read has returned a chunk
SerialToWsResume(s) ==
    \/ serial_to_ws_send(s)
    \/ serial_to_ws_send_closed(s)
    \/ \E ok \in BOOLEAN : serial_to_ws_dispatch(s, ok)

TeardownNext ==
    \/ \E s \in Sessions : handler_start(s)
    \/ \E s \in Sessions, k \in TeardownChunks : serial_to_ws_read(s, k)
    \/ \E s \in Sessions : serial_to_ws_idle(s)
    \/ \E s \in Sessions : serial_to_ws_read_error(s)
    \/ \E s \in Sessions : SerialToWsResume(s)
    \/ \E s \in Sessions : ws_to_serial_closed(s)
    \/ \E s \in Sessions : client_close(s)
    \/ \E s \in Sessions : handler_finally(s)

TeardownFair ==
    \A s \in Sessions :
        /\ SF_vars(\E k \in TeardownChunks : serial_to_ws_read(s, k))
        /\ WF_vars(SerialToWsResume(s))
        /\ WF_vars(ws_to_serial_closed(s))
        /\ WF_vars(handler_finally(s))

TeardownSpec == RelayInit /\ [][TeardownNext]_vars /\ TeardownFair

(* Readings reaching the sinks while the clock runs: one connection, the    *)
(* device delivers whole frames.                                            *)
ThrottleInit ==
    InitWith({FrameTrain(MaxReadings)}, 0..MaxStartClock, BOOLEAN \X BOOLEAN)

ThrottleNext ==
    \/ handler_start(1)
    \/ \E n \in 1..2 : serial_to_ws_read(1, n * FRAME_LENGTH)
    \/ serial_to_ws_send(1)
    \/ serial_to_ws_dispatch(1, TRUE)
    \/ tui_draw
    \/ Tick

ThrottleSpec == ThrottleInit /\ [][ThrottleNext]_vars

(* Logger writes that fail while the clock runs: one connection, the logger *)
(* enabled.                                                                 *)
FaultInit ==
    InitWith({FrameTrain(MaxReadings)}, {MaxStartClock}, {TRUE} \X BOOLEAN)

FaultNext ==
    \/ handler_start(1)
    \/ \E n \in 1..2 : serial_to_ws_read(1, n * FRAME_LENGTH)
    \/ serial_to_ws_send(1)
    \/ \E ok \in BOOLEAN : serial_to_ws_dispatch(1, ok)
    \/ Tick

FaultSpec == FaultInit /\ [][FaultNext]_vars

----------------------------------------------------------------------------
(* Properties of the decoder on a chunked stream (DecodeSpec) *)

\* the readings of connection s dispatched so far, in order
ReadingsOf(s) ==
    LET sel == SelectSeq(offered, LAMBDA e : e.s = s)
    IN  [i \in 1..Len(sel) |-> sel[i].p]

\* the readings the passes of connection s have produced so far
Decoded(s) == ReadingsOf(s) \o pending[s]

IsCandidate(f) == Len(f) = 9 /\ f[1] = 7 /\ f[2] = 5
ByteSum17(f) == (f[2] + f[3] + f[4] + f[5] + f[6] + f[7] + f[8]) % 256
IsWellFormed(f) == IsCandidate(f) /\ f[9] = ByteSum17(f)
IsCorrupt(f) == IsCandidate(f) /\ f[9] # ByteSum17(f)

\* C1: feeding the chunks one by one (buffer := remainder + chunk, then one
\* decode pass) gives, over all passes, the same readings in the same order
\* and the same final remainder as one call of parse_itr90_frames on the
\* concatenation of the chunks.
C1_FragmentationInvariance ==
    \A s \in Sessions :
        sess[s] = "active" =>
            LET whole == parse_itr90_frames(clientRecv[s])
            IN  /\ whole.readings = Decoded(s)
                /\ whole.buf = parse_buf[s]

\* a frame that arrives in pieces: after an earlier reading, 8 bytes of the
\* next frame wait in the buffer and a 1-byte chunk is in hand
C1_Witness ==
    /\ pcS2W[1] = "send"
    /\ Len(data[1]) = 1
    /\ Len(parse_buf[1]) = 8
    /\ Len(offered) >= 1

\* C3: after every decode pass the remainder is at most 1 byte when it holds
\* no marker, and otherwise at most 8 bytes that begin with the marker 7,5.
C3_BoundedBuffer ==
    \A s \in Sessions :
        LET b == parse_buf[s] IN
        IF FindMarker(b) = 0
        THEN Len(b) <= 1
        ELSE Len(b) <= 8 /\ b[1] = 7 /\ b[2] = 5

\* more than a buffer's worth has been decoded, the remainder is a partial
\* frame of 8 bytes
C3_Witness ==
    /\ Len(clientRecv[1]) > 18
    /\ Len(parse_buf[1]) = 8
    /\ pcS2W[1] = "read"

\* C4: a well-formed frame [7,5,x,x,128,0,x,x,checksum], 3 noise bytes and
\* the same frame again reach the client verbatim and give exactly two
\* readings.
IsNoiseScenario(r) ==
    /\ Len(r) = 21
    /\ IsWellFormed(SubSeq(r, 1, 9))
    /\ r[5] = 128 /\ r[6] = 0
    /\ SubSeq(r, 13, 21) = SubSeq(r, 1, 9)

C4_NoiseScenario ==
    \A s \in Sessions :
        (sess[s] = "active" /\ pcS2W[s] = "read" /\ IsNoiseScenario(devRead[s]))
            => /\ clientRecv[s] = devRead[s]
               /\ Len(ReadingsOf(s)) = 2

\* C5: a 9-byte candidate with a wrong checksum gives no reading and does not
\* stop the task; a well-formed frame that follows it, in the same chunk or a
\* later one, gives exactly one reading, the frame's.
C5_ChecksumResync ==
    \A s \in Sessions :
        LET r == clientRecv[s] IN
        (sess[s] = "active" /\ Len(r) >= 9 /\ IsCorrupt(SubSeq(r, 1, 9)))
            => /\ pcS2W[s] # "done"
               /\ Len(r) = 9 => Decoded(s) = <<>>
               /\ (Len(r) = 18 /\ IsWellFormed(SubSeq(r, 10, 18)))
                      => Decoded(s) = <<pressure_mbar(r[14], r[15])>>

\* the corrupt candidate and the frame after it have been decoded and the
\* reading dispatched
C5_Witness ==
    /\ Len(clientRecv[1]) = 18
    /\ IsCorrupt(SubSeq(clientRecv[1], 1, 9))
    /\ IsWellFormed(SubSeq(clientRecv[1], 10, 18))
    /\ Len(offered) = 1
    /\ pcS2W[1] = "read"

\* b is the concatenation of k >= 0 well-formed frames
IsFrameTrain(b) ==
    /\ Len(b) % 9 = 0
    /\ \A i \in 1..(Len(b) \div 9) :
          IsWellFormed(SubSeq(b, 9 * (i - 1) + 1, 9 * i))

\* the pressure fields of the frames of a train, in frame order
FramePressures(b) ==
    [i \in 1..(Len(b) \div 9) |->
        pressure_mbar(b[9 * (i - 1) + 5], b[9 * (i - 1) + 6])]

\* a pass that starts from an empty buffer on a chunk of whole frames
WholeFramePass ==
    [][\A s \in Sessions :
         (/\ pcS2W[s] = "send" /\ pcS2W'[s] # "send"
          /\ parse_buf[s] = <<>>
          /\ IsFrameTrain(data[s]))
         => /\ pending'[s] = FramePressures(data[s])
            /\ parse_buf'[s] = <<>>]_vars

\* C14: a buffer that is the concatenation of k >= 0 well-formed 9-byte
\* frames yields, in one pass, exactly k readings in frame order and an
\* empty remainder; the empty buffer yields no readings and stays empty.
C14_WholeFrames ==
    /\ WholeFramePass
    /\ [](parse_itr90_frames(<<>>) = [readings |-> <<>>, buf |-> <<>>])
    /\ [](IsFrameTrain(devStream) =>
             parse_itr90_frames(devStream) =
                 [readings |-> FramePressures(devStream), buf |-> <<>>])

\* three frames arrived in one chunk and one pass produced their readings
C14_Witness ==
    /\ Len(clientRecv[1]) = 3 * FRAME_LENGTH
    /\ IsFrameTrain(clientRecv[1])
    /\ Len(pending[1]) = 3
    /\ pending[1][1] # pending[1][2]
    /\ parse_buf[1] = <<>>
    /\ offered = <<>>

\* C15: the reading of a valid frame depends only on bytes 4 (high) and 5
\* (low) of the frame, through raw = high*256 + low with 0 <= raw <= 65535,
\* and is 10^(raw/4000 - 12.5): exponent -12.5 at raw = 0, -4.308 at
\* raw = 32768 and 3.88375 at raw = 65535 (readings are held as the
\* numerator raw - 50000 of the exponent over 4000).
C15_PressureDecoding ==
    \A s \in Sessions :
        (sess[s] = "active" /\ IsWellFormed(clientRecv[s])) =>
            LET f == clientRecv[s]
                raw == f[5] * 256 + f[6]
            IN  /\ raw \in 0..65535
                /\ Decoded(s) = <<raw - 50000>>
                /\ raw = 0 => 10 * Decoded(s)[1] = -125 * 4000
                /\ raw = 32768 => 1000 * Decoded(s)[1] = -4308 * 4000
                /\ raw = 65535 => 100000 * Decoded(s)[1] = 388375 * 4000

\* the frame with raw = 65535 has been decoded and its reading dispatched
C15_Witness ==
    /\ IsWellFormed(clientRecv[1])
    /\ clientRecv[1][5] = 255 /\ clientRecv[1][6] = 255
    /\ clientRecv[1][3] = 0 /\ clientRecv[1][8] = 255
    /\ Len(offered) = 1 /\ offered[1].p = 15535

\* C16: after a candidate fails its checksum, a well-formed frame whose
\* marker begins inside the 9 bytes of the candidate is still found and
\* decoded.
C16_RescanInsideCandidate ==
    \A s \in Sessions :
        LET r == clientRecv[s] IN
        (sess[s] = "active" /\ Len(r) >= 9 /\ IsCorrupt(SubSeq(r, 1, 9))) =>
            \A i \in 2..9 :
                (i + 8 <= Len(r) /\ IsWellFormed(SubSeq(r, i, i + 8))) =>
                    \E j \in 1..Len(Decoded(s)) :
                        Decoded(s)[j] = pressure_mbar(r[i + 4], r[i + 5])

\* the buffer a decode pass of connection s is about to be called on
PassInput(s) == parse_buf[s] \o data[s]

\* the scan loop on b leaves within Len(b) + 1 iterations, every iteration
\* that does not leave it shortens the buffer by at least 9 bytes, and what
\* it returns is what parse_itr90_frames returns
ScanProgress(b) ==
    LET run == scan_run(<<>>, b, <<>>, Len(b) + 1) IN
    /\ run.exited
    /\ \A i \in 1..(Len(run.lens) - 1) :
          run.lens[i + 1] <= run.lens[i] - FRAME_LENGTH
    /\ parse_itr90_frames(b) = [readings |-> run.readings, buf |-> run.buf]

\* C17: parse_itr90_frames terminates on every finite buffer; each
\* iteration of its scan loop either leaves the loop or shortens the buffer
\* by at least 9 bytes, so a candidate with a failing checksum cannot make
\* the loop spin.
C17_ScanTerminates ==
    /\ devPos = 0 => ScanProgress(devStream)
    /\ \A s \in Sessions : pcS2W[s] = "send" => ScanProgress(PassInput(s))

\* a pass is about to run three iterations: a candidate that fails its
\* checksum, a frame that gives a reading, and the exit
C17_Witness ==
    /\ pcS2W[1] = "send"
    /\ Len(PassInput(1)) >= 9
    /\ IsCorrupt(SubSeq(PassInput(1), 1, 9))
    /\ LET run == scan_run(<<>>, PassInput(1), <<>>, Len(PassInput(1)) + 1)
       IN  Len(run.lens) = 3 /\ Len(run.readings) = 1

\* b starts with the marker 7,5 and is shorter than a frame
IsPartialFrame(b) == Len(b) \in 2..8 /\ b[1] = 7 /\ b[2] = 5

\* decoding b gives no readings and b itself
DecodesToItself(b) == parse_itr90_frames(b) = [readings |-> <<>>, buf |-> b]

\* C18: a buffer that starts with the marker 7,5 and has fewer than 9 bytes
\* (the marker alone included) decodes to no readings and itself, however
\* often it is decoded; for every buffer b, the remainder m of decoding b
\* decodes to no readings and m.
C18_PartialPreserved ==
    \A s \in Sessions :
        /\ DecodesToItself(parse_buf[s])
        /\ pcS2W[s] = "send" =>
              /\ IsPartialFrame(PassInput(s)) =>
                    /\ DecodesToItself(PassInput(s))
                    /\ DecodesToItself(parse_itr90_frames(PassInput(s)).buf)
              /\ DecodesToItself(parse_itr90_frames(PassInput(s)).buf)

\* the marker alone was kept by one pass, and the next pass is about to be
\* called on 8 bytes of the same frame
C18_Witness ==
    /\ pcS2W[1] = "send"
    /\ parse_buf[1] = <<7, 5>>
    /\ Len(PassInput(1)) = 8
    /\ IsPartialFrame(PassInput(1))

\* the readings ds, in order, are the pressures of well-formed 9-byte
\* windows of r that start at or after from and do not overlap
RECURSIVE InDisjointWindows(_, _, _)
InDisjointWindows(r, from, ds) ==
    \/ ds = <<>>
    \/ \E w \in from..(Len(r) - 8) :
          /\ IsWellFormed(SubSeq(r, w, w + 8))
          /\ pressure_mbar(r[w + 4], r[w + 5]) = Head(ds)
          /\ InDisjointWindows(r, w + 9, Tail(ds))

\* C19: over any chunked device stream, every dispatched reading is the
\* pressure of a 9-byte window of the stream whose bytes 0,1 are 7,5 and
\* whose byte 8 is (sum of bytes 1..7) & 0xFF; the windows of distinct
\* readings are pairwise disjoint and in stream order, so no device byte
\* contributes to more than one reading.
C19_OneDecodePerByte ==
    \A s \in Sessions :
        /\ InDisjointWindows(clientRecv[s], 1, Decoded(s))
        /\ 9 * Len(Decoded(s)) <= Len(clientRecv[s])

\* two readings dispatched from a chunked stream of three candidates, the
\* one in the middle corrupt
C19_Witness ==
    /\ Len(clientRecv[1]) = 27
    /\ IsWellFormed(SubSeq(clientRecv[1], 1, 9))
    /\ IsCorrupt(SubSeq(clientRecv[1], 10, 18))
    /\ IsWellFormed(SubSeq(clientRecv[1], 19, 27))
    /\ Len(offered) = 2
    /\ offered[1].p # offered[2].p

----------------------------------------------------------------------------
(* Properties of the sessions (Spec, RelaySpec, TeardownSpec) *)

\* C2: every non-empty chunk read from the device is handed to ws.send
\* exactly once, unchanged and in the order read, and reaches the client
\* unless the connection has closed (which ends the task); an empty read sends
\* nothing; what is forwarded is the chunk, whatever the decoder does.
C2_Forwarded ==
    \A s \in Sessions :
        /\ pcS2W[s] = "send" =>
              /\ data[s] # <<>>
              /\ devRead[s] = wsSent[s] \o data[s]
              /\ clientRecv[s] = wsSent[s]
        /\ pcS2W[s] # "send" =>
              /\ devRead[s] = wsSent[s]
              /\ \/ clientRecv[s] = wsSent[s]
                 \/ /\ pcS2W[s] = "done" /\ ~wsOpen[s] /\ data[s] # <<>>
                    /\ wsSent[s] = clientRecv[s] \o data[s]

C2_OneMessagePerChunk ==
    [][\A s \in Sessions :
         /\ wsSent'[s] # wsSent[s] =>
               /\ pcS2W[s] = "send"
               /\ wsSent'[s] = wsSent[s] \o data[s]
               /\ clientRecv'[s] = IF wsOpen[s] THEN clientRecv[s] \o data[s]
                                   ELSE clientRecv[s]
         /\ wsSent'[s] = wsSent[s] => clientRecv'[s] = clientRecv[s]
         /\ data'[s] = <<>> => devRead'[s] = devRead[s]]_vars

C2_RelayByteExact == []C2_Forwarded /\ C2_OneMessagePerChunk

\* two chunks have been forwarded to the client of connection 1, the second
\* while bytes of a partial frame were waiting in the decode buffer
C2_Witness ==
    /\ Len(clientRecv[1]) = 10
    /\ clientRecv[1] = devRead[1]
    /\ parse_buf[1] # <<>>
    /\ pcS2W[1] = "read"

\* the decoder of connection s is in the state that decoding exactly the
\* bytes its client received leaves it in, and every dispatched reading
\* comes from those bytes
DecoderFedWhatWasSent ==
    \A s \in Sessions :
        /\ parse_itr90_frames(clientRecv[s]) =
               [readings |-> Decoded(s), buf |-> parse_buf[s]]
        /\ InDisjointWindows(clientRecv[s], 1, ReadingsOf(s))

\* the decoder is fed by the step in which ws.send returns, with the chunk
\* just sent; a send that raises feeds it nothing
DecodeAfterSend ==
    [][\A s \in Sessions :
         /\ (parse_buf'[s] # parse_buf[s]
                \/ Len(Decoded(s)') > Len(Decoded(s))) =>
               /\ pcS2W[s] = "send" /\ wsOpen[s]
               /\ clientRecv'[s] = clientRecv[s] \o data[s]
               /\ parse_itr90_frames(parse_buf[s] \o data[s]) =
                      [readings |-> pending'[s], buf |-> parse_buf'[s]]
         /\ (pcS2W[s] = "send" /\ pcS2W'[s] = "done") =>
               /\ ~wsOpen[s]
               /\ clientRecv'[s] = clientRecv[s]
               /\ parse_buf'[s] = parse_buf[s]
               /\ pending'[s] = pending[s]
               /\ offered' = offered]_vars

\* C20: within a session the bytes fed to the decoder are exactly the bytes
\* already sent to the client with success: a chunk is decoded only after
\* its send returned, a chunk whose send raised because the connection is
\* closed is never decoded, and no reading is dispatched from bytes the
\* client did not receive.
C20_DecodeFollowsForward == []DecoderFedWhatWasSent /\ DecodeAfterSend

\* the first frame reached the client and gave a reading; the send of the
\* second frame raised and ended the task
C20_Witness ==
    /\ pcS2W[1] = "done"
    /\ Len(devRead[1]) = 2 * FRAME_LENGTH
    /\ Len(clientRecv[1]) = FRAME_LENGTH
    /\ Len(ReadingsOf(1)) = 1
    /\ parse_buf[1] = <<>>

\* C21: the display's client state (_tui_client) is 'connected' exactly
\* when a client connection is being served and 'disconnected' otherwise; it
\* never shows 'disconnected' while a client is still connected.
C21_ClientStateMatches ==
    (tui_client # None) <=> (\E s \in Sessions : sess[s] = "active")

\* C6: once one of a session's two tasks has terminated, the other does
\* nothing more: serial_to_ws reads no further device bytes after ws_to_serial
\* has returned, and ws_to_serial takes no further client message after
\* serial_to_ws has returned.
C6_EndCancelsOther ==
    [][\A s \in Sessions :
         /\ pcW2S[s] = "done" => devRead'[s] = devRead[s]
         /\ pcS2W[s] = "done" =>
               \/ wsRecv' = wsRecv
               \/ wsRecv'[Len(wsRecv')].s # s]_vars

\* C7: at most one session is active at any moment.
C7_SingleSession ==
    Cardinality({s \in Sessions : sess[s] = "active"}) <= 1

\* no chunk size the device delivers fits what is left of its stream
DeviceSilent == \A k \in TeardownChunks : devPos + k > Len(devStream)

\* C8: the serial handle opened at startup stays open and is never reopened,
\* and a session whose client has disconnected ends (both tasks return and
\* the handler finishes) while the device keeps emitting bytes.
C8_TeardownKeepsDevice ==
    /\ [](serOpen /\ serOpens = 1)
    /\ \A s \in Sessions :
          [](sess[s] = "active" /\ ~wsOpen[s]
                => <>(sess[s] = "ended" \/ DeviceSilent))

\* the first session was torn down on a chunk its closed client did not get,
\* and the next client is being relayed to on the same handle
C8_Witness ==
    /\ sess[1] = "ended"
    /\ devRead[1] # clientRecv[1]
    /\ sess[2] = "active"
    /\ clientRecv[2] # <<>>
    /\ serOpen /\ serOpens = 1

----------------------------------------------------------------------------
(* Properties of the throttled sinks (ThrottleSpec) *)

Tenth == TicksPerSecond \div 10     \* 0.1 s in ticks

\* C9: with the logger enabled, two readings delivered 0.1 s apart give
\* exactly one accepted write and two readings delivered 1.1 s apart give two,
\* whatever the clock value at the first reading.
C9_TwoReadings ==
    (influx /\ Len(offered) = 2) =>
        LET gap == offered[2].t - offered[1].t IN
        /\ gap = Tenth => Len(influxLog) = 1
        /\ gap = TicksPerSecond + Tenth => Len(influxLog) = 2

\* any two entries of an acceptance log are at least w ticks apart
Spaced(log, w) ==
    \A i, j \in 1..Len(log) : i < j => log[j].t - log[i].t >= w

\* every accepted entry is a reading accepted at the instant it was offered
AtArrival(log) ==
    \A i \in 1..Len(log) :
        \E j \in 1..Len(offered) :
            offered[j].t = log[i].t /\ offered[j].p = log[i].p

\* a reading offered inside the window opened by another accepted reading is
\* not in the log, then or later
DroppedInWindow(log, w) ==
    \A j \in 1..Len(offered) :
        (\E i \in 1..Len(log) :
            /\ log[i].p # offered[j].p
            /\ log[i].t <= offered[j].t
            /\ offered[j].t - log[i].t < w)
        => \A i \in 1..Len(log) : log[i].p # offered[j].p

InfluxAccepts == influx /\ now - last_influx_write >= TicksPerSecond
TuiAccepts == tui_active /\ now - tui_last_draw >= TuiInterval

\* every reading a decode pass produced is dispatched before the next read
AllDispatched ==
    \A s \in Sessions :
        /\ pcS2W[s] \in {"read", "send"} => pending[s] = <<>>
        /\ sess[s] = "active" =>
              parse_itr90_frames(clientRecv[s]).readings = Decoded(s)

\* a dispatch step hands the reading to both sinks; each sink accepts or
\* drops it by its own enabled flag and its own timestamp
EachSinkDecidesAlone ==
    [][offered' # offered =>
         LET e == offered'[Len(offered')] IN
         /\ Len(offered') = Len(offered) + 1
         /\ tui_pressure' = Some(e.p)
         /\ IF InfluxAccepts
            THEN /\ last_influx_write' = now
                 /\ \E ok \in BOOLEAN :
                       influxLog' =
                           Append(influxLog, [t |-> now, p |-> e.p, ok |-> ok])
            ELSE UNCHANGED <<last_influx_write, influxLog>>
         /\ IF TuiAccepts
            THEN /\ tui_last_draw' = now
                 /\ tuiLog' = Append(tuiLog, [t |-> now, p |-> e.p])
            ELSE UNCHANGED <<tui_last_draw, tuiLog>>]_vars

\* C11: every decoded reading is offered to both sinks; a sink's decision
\* and its last-accepted timestamp depend on that sink's enabled flag and
\* timestamp only, not on what the other sink did with the reading; a
\* disabled sink's timestamp is never changed.
C11_SinkIndependence == []AllDispatched /\ EachSinkDecidesAlone

\* both sinks enabled: the second reading was accepted by the display and
\* dropped by the logger
C11_Witness ==
    /\ influx /\ tui_active
    /\ Len(offered) = 2
    /\ Len(tuiLog) = 2
    /\ Len(influxLog) = 1

\* a logger write has raised
WriteFailed == \E i \in 1..Len(influxLog) : ~influxLog[i].ok

\* after a failed write the task and the session are still running, every
\* byte read has reached the client and every decoded reading is dispatched
FailureContained ==
    \A s \in Sessions :
        (WriteFailed /\ sess[s] # "none") =>
            /\ sess[s] = "active"
            /\ pcS2W[s] \in {"read", "send", "dispatch"}
            /\ pcS2W[s] # "send" => clientRecv[s] = devRead[s]
            /\ pcS2W[s] # "dispatch" => pending[s] = <<>>
            /\ parse_itr90_frames(clientRecv[s]).readings = Decoded(s)

\* the reading whose write fails has reached the display, the loop goes on
\* to the next reading, and the remaining readings of the pass are kept
FailedWriteStep ==
    [][(Len(influxLog') > Len(influxLog) /\ ~influxLog'[Len(influxLog')].ok) =>
         LET p == influxLog'[Len(influxLog')].p IN
         \E s \in Sessions :
             /\ pcS2W[s] = "dispatch" /\ Head(pending[s]) = p
             /\ tui_pressure' = Some(p)
             /\ offered' = Append(offered, [s |-> s, t |-> now, p |-> p])
             /\ pending'[s] = Tail(pending[s])
             /\ pcS2W'[s] = IF pending'[s] = <<>> THEN "read" ELSE "dispatch"
             /\ sess'[s] = "active"]_vars

\* C12: a logger write that raises is caught inside write_influx_pressure:
\* the device-to-client task and the session keep running, the client still
\* receives every byte, and later readings are still decoded and offered to
\* the display and to the logger.
C12_LoggerFailureContained ==
    /\ []FailureContained
    /\ FailedWriteStep
    /\ EachSinkDecidesAlone

\* the write of the first reading failed; every byte of the stream reached
\* the client and a later reading was written by the logger
C12_Witness ==
    /\ Len(influxLog) = 2
    /\ ~influxLog[1].ok /\ influxLog[2].ok
    /\ clientRecv[1] = devStream
    /\ Len(offered) = MaxReadings
    /\ pcS2W[1] = "read"

----------------------------------------------------------------------------
(* Properties of the client-to-device direction (CommandSpec) *)

\* the device writes that a log of received messages calls for
RECURSIVE WritesOf(_)
WritesOf(log) ==
    IF log = <<>> THEN <<>>
    ELSE LET e == log[Len(log)]
             before == WritesOf(SubSeq(log, 1, Len(log) - 1))
         IN  IF e.written
             THEN Append(before, [s |-> e.s, bytes |-> e.m.payload])
             ELSE before

\* the device has been written exactly the non-empty binary messages, each
\* once, unmodified, in the order received; the only such message not
\* written is one whose ser.write raised, the last its task received
CommandsRelayed ==
    /\ serWritten = WritesOf(wsRecv)
    /\ \A i \in 1..Len(wsRecv) :
          LET e == wsRecv[i] IN
          /\ e.written => IsCommand(e.m)
          /\ (IsCommand(e.m) /\ ~e.written) =>
                /\ pcW2S[e.s] = "done"
                /\ \A j \in (i + 1)..Len(wsRecv) : wsRecv[j].s # e.s

\* receiving a text message or an empty binary message writes nothing and
\* leaves the task and the session running
IgnoredKeepSession ==
    [][(Len(wsRecv') > Len(wsRecv) /\ ~IsCommand(wsRecv'[Len(wsRecv')].m)) =>
         LET s == wsRecv'[Len(wsRecv')].s IN
         /\ serWritten' = serWritten
         /\ pcW2S'[s] = "recv" /\ pcW2S[s] = "recv"
         /\ sess'[s] = "active"
         /\ wsOpen'[s]]_vars

\* C13: every non-empty binary message received from a client is written to
\* the device exactly once, unmodified and in the order received (unless
\* ser.write raises, which ends the task); text messages and empty binary
\* messages cause no device write and do not end the session.
C13_ClientToDevice == []CommandsRelayed /\ IgnoredKeepSession

\* an ignored message followed by a command on the same connection: one
\* device write, the task still receiving
C13_Witness ==
    /\ Len(wsRecv) = 2
    /\ ~IsCommand(wsRecv[1].m) /\ IsCommand(wsRecv[2].m)
    /\ wsRecv[1].s = wsRecv[2].s
    /\ Len(serWritten) = 1
    /\ pcW2S[wsRecv[1].s] = "recv"

====
